---------------------------- MODULE Spec2Model ----------------------------
(***************************************************************************)
(* Smart-home controller: the device-state dictionary, the merge of a      *)
(* parsed command into it (parse_command / parse_json_response), the       *)
(* direct /command replacement, the dispatch of send_device_states on a    *)
(* thread or a timer, and the frame-by-frame send over the serial port.    *)
(* The three application variants of the repository are modelled side by   *)
(* side; the variable variant says which one is running:                   *)
(*   "v7"     src/app_version_7_intensity.py                               *)
(*   "v6"     src/app_version_6_delay.py                                   *)
(*   "merged" src/merged_app.py                                            *)
(***************************************************************************)
EXTENDS Integers, Sequences, FiniteSets, TLC

(***************************************************************************)
(* Bounds of the model.                                                    *)
(***************************************************************************)
\* number of HTTP requests (voice or direct commands) in one run
MaxCmds == 2
\* number of serial-port failures (open or write) the environment injects
MaxFaults == 1

Cmds == 1..MaxCmds

(***************************************************************************)
(* Python / JSON values.  A scalar is a string, an integer or None; a      *)
(* dict maps field names to scalars.  "k" is the tag.                      *)
(***************************************************************************)
Str(s) == [k |-> "str", s |-> s, n |-> 0]
Num(n) == [k |-> "int", s |-> "", n |-> n]
Null == [k |-> "null", s |-> "", n |-> 0]
Dict(f) == [k |-> "dict", f |-> f]
\* a key that the document does not carry at all (dict.get falls to its default)
Missing == [k |-> "missing", s |-> "", n |-> 0]

IsDict(v) == v.k = "dict"
HasKey(d, key) == key \in DOMAIN d.f
\* d[key] = v on a Python dict: the key is added when absent
SetKey(d, key, v) ==
    Dict([x \in (DOMAIN d.f) \cup {key} |-> IF x = key THEN v ELSE d.f[x]])

(***************************************************************************)
(* The spelling of the string literals the model uses, character by        *)
(* character: str.rstrip and int() work on it.                             *)
(***************************************************************************)
Chars(s) ==
    CASE s = "75%" -> <<"7", "5", "%">>
      [] s = "abc%" -> <<"a", "b", "c", "%">>
      [] s = "150" -> <<"1", "5", "0">>
      [] s = "190" -> <<"1", "9", "0">>
      [] s = "200°" -> <<"2", "0", "0", "°">>
      [] s = "-5" -> <<"-", "5">>
      [] s = "0%" -> <<"0", "%">>
      [] s = "5" -> <<"5">>
      [] s = "soon" -> <<"s", "o", "o", "n">>
      [] s = "on" -> <<"o", "n">>
      [] s = "off" -> <<"o", "f", "f">>
      [] s = "clock" -> <<"c", "l", "o", "c", "k">>
      [] s = "anti" -> <<"a", "n", "t", "i">>
      [] s = "none" -> <<"n", "o", "n", "e">>
      [] s = "sideways" -> <<"s", "i", "d", "e", "w", "a", "y", "s">>
      [] s = "" -> << >>

Digits == <<"0", "1", "2", "3", "4", "5", "6", "7", "8", "9">>
IsDigit(c) == \E i \in 1..10 : Digits[i] = c
DigitVal(c) == (CHOOSE i \in 1..10 : Digits[i] = c) - 1

\* str.rstrip(chars): drop the trailing characters that are in chars
RECURSIVE RStrip(_, _)
RStrip(cs, chars) ==
    IF cs # << >> /\ cs[Len(cs)] \in chars
    THEN RStrip(SubSeq(cs, 1, Len(cs) - 1), chars)
    ELSE cs

RECURSIVE DecValue(_)
DecValue(cs) ==
    IF cs = << >> THEN 0
    ELSE 10 * DecValue(SubSeq(cs, 1, Len(cs) - 1)) + DigitVal(cs[Len(cs)])

AllDigits(cs) == cs # << >> /\ \A i \in 1..Len(cs) : IsDigit(cs[i])

\* int(<str>): an optional sign and decimal digits, ValueError otherwise
ParseInt(cs) ==
    LET signed == cs # << >> /\ cs[1] \in {"-", "+"}
        body == IF signed THEN Tail(cs) ELSE cs
    IN  IF AllDigits(body)
        THEN [ok |-> TRUE,
              n |-> IF signed /\ cs[1] = "-" THEN 0 - DecValue(body) ELSE DecValue(body)]
        ELSE [ok |-> FALSE, n |-> 0]

RECURSIVE DecChars(_)
DecChars(n) ==
    IF n < 10 THEN <<Digits[n + 1]>>
    ELSE Append(DecChars(n \div 10), Digits[(n % 10) + 1])

\* str(v), as far as int() cares: a number's digits, the text of a string,
\* "None", or a dict's "{...}" (never a number)
PyStr(v) ==
    CASE v.k = "str" -> Chars(v.s)
      [] v.k = "int" -> IF v.n < 0 THEN <<"-">> \o DecChars(0 - v.n) ELSE DecChars(v.n)
      [] v.k = "null" -> <<"N", "o", "n", "e">>
      [] OTHER -> <<"{", "}">>

\* int(v): ok = FALSE stands for the ValueError / TypeError int() raises
PyInt(v) ==
    CASE v.k = "int" -> [ok |-> TRUE, n |-> v.n]
      [] v.k = "str" -> ParseInt(Chars(v.s))
      [] OTHER -> [ok |-> FALSE, n |-> 0]

(***************************************************************************)
(* The device-state dictionary.  A Python dict keeps its insertion order,  *)
(* so a dictionary is its key sequence and its values.                     *)
(***************************************************************************)
MkDict(keys, vals) == [keys |-> keys, vals |-> vals]
KeySet(d) == {d.keys[i] : i \in 1..Len(d.keys)}
\* d[key] = v for a key the dict already holds: the order is kept
Put(d, key, v) == [d EXCEPT !.vals[key] = v]

Off == Str("off")
On == Str("on")

RegistryV7 ==
    <<"room 1 light", "room 2 light", "room 3 light", "room 4 light",
      "kitchen light", "TV", "Refrigerator", "DC motor", "Servo motor">>
RegistryV6 ==
    <<"room 1 light", "room 2 light", "room 3 light", "kitchen light",
      "room 1 fan", "room 2 fan", "room 3 fan", "kitchen fan">>
Registry(v) == IF v = "v7" THEN RegistryV7 ELSE RegistryV6

DimmableLights == {"room 2 light", "room 3 light"}
ServoKey == "Servo motor"
Directions == {"clock", "anti", "none"}

\* self.device_states as __init__ builds it
InitialStates(v) ==
    IF v = "v7"
    THEN MkDict(RegistryV7,
                [d \in {RegistryV7[i] : i \in 1..Len(RegistryV7)} |->
                    IF d \in DimmableLights
                    THEN Dict([state |-> Off, intensity |-> Num(0)])
                    ELSE IF d = ServoKey
                    THEN Dict([direction |-> Str("none"), degrees |-> Num(0)])
                    ELSE Off])
    ELSE MkDict(RegistryV6, [d \in {RegistryV6[i] : i \in 1..Len(RegistryV6)} |-> Off])

(***************************************************************************)
(* The merge of a parsed document, one statement at a time.  A statement   *)
(* is one iteration of a loop of parse_command (or one of the two servo    *)
(* assignments); Exec gives the dictionary after it and whether it raised  *)
(* out of parse_command's try block (the function then returns None).      *)
(***************************************************************************)
Ok(d) == [states |-> d, raised |-> FALSE]
Raise(d) == [states |-> d, raised |-> TRUE]

\* one iteration of "for device, state in device_states.items()", version 7
MergeDeviceV7(d, device, state) ==
    IF device \notin KeySet(d) THEN Ok(d)
    ELSE LET cur == d.vals[device] IN
         IF device \in DimmableLights
         THEN IF ~IsDict(cur) THEN Ok(d)
              ELSE IF IsDict(state)
              THEN \* the defaults of state.get are evaluated first: KeyError when absent
                   IF ~HasKey(cur, "state") THEN Raise(d)
                   ELSE LET c1 == SetKey(cur, "state",
                                    IF HasKey(state, "state") THEN state.f["state"]
                                    ELSE cur.f["state"])
                        IN  IF ~HasKey(c1, "intensity") THEN Raise(Put(d, device, c1))
                            ELSE Ok(Put(d, device,
                                     SetKey(c1, "intensity",
                                        IF HasKey(state, "intensity") THEN state.f["intensity"]
                                        ELSE c1.f["intensity"])))
              ELSE Ok(Put(d, device, SetKey(cur, "state", state)))
         ELSE IF device = ServoKey
         THEN IF ~IsDict(state) THEN Ok(d)
              ELSE IF ~IsDict(cur) \/ ~HasKey(cur, "direction") THEN Raise(d)
              ELSE LET c1 == SetKey(cur, "direction",
                               IF HasKey(state, "direction") THEN state.f["direction"]
                               ELSE cur.f["direction"])
                   IN  IF ~HasKey(c1, "degrees") THEN Raise(Put(d, device, c1))
                       ELSE Ok(Put(d, device,
                                SetKey(c1, "degrees",
                                   IF HasKey(state, "degrees") THEN state.f["degrees"]
                                   ELSE c1.f["degrees"])))
         ELSE Ok(Put(d, device, state))

\* one iteration of "for light, intensity in light_intensity.items()"
MergeIntensity(d, light, intensity) ==
    IF light \notin DimmableLights THEN Ok(d)
    ELSE LET stripped == IF intensity.k = "str"
                         THEN ParseInt(RStrip(Chars(intensity.s), {"%"}))
                         ELSE PyInt(intensity)
         IN  IF ~stripped.ok THEN Ok(d)                       \* logged, skipped
             ELSE IF light \notin KeySet(d) THEN Raise(d)     \* KeyError
             ELSE IF ~IsDict(d.vals[light]) THEN Ok(d)        \* TypeError, logged
             ELSE Ok(Put(d, light,
                      SetKey(SetKey(d.vals[light], "intensity", Num(stripped.n)),
                             "state", IF stripped.n > 0 THEN On ELSE Off)))

\* "if servo_motor_angle is not None: ..."
MergeServoAngle(d, angle) ==
    LET parsed == ParseInt(RStrip(PyStr(angle), {"Â", "°"}))
    IN  IF ~parsed.ok THEN Ok(d)
        ELSE IF ServoKey \notin KeySet(d) THEN Raise(d)
        ELSE IF ~IsDict(d.vals[ServoKey]) THEN Ok(d)
        ELSE Ok(Put(d, ServoKey, SetKey(d.vals[ServoKey], "degrees", Num(parsed.n))))

\* "if servo_motor_direction is not None: ..."
MergeServoDirection(d, direction) ==
    IF ServoKey \notin KeySet(d) \/ ~IsDict(d.vals[ServoKey]) THEN Raise(d)
    ELSE Ok(Put(d, ServoKey, SetKey(d.vals[ServoKey], "direction", direction)))

\* one iteration of the update loop of version 6 and of the merged application
MergeDeviceV6(d, device, state) ==
    IF device \in KeySet(d) THEN Ok(Put(d, device, state)) ELSE Ok(d)

(***************************************************************************)
(* A parsed document (the output parser's dict, or the JSON the merged     *)
(* application decodes).  The two maps are sequences of pairs in the       *)
(* order of the document; an absent key is Missing.                        *)
(***************************************************************************)
Doc(ds, li, angle, direction, delay, message) ==
    [device_states |-> ds, light_intensity |-> li, servo_motor_angle |-> angle,
     servo_motor_direction |-> direction, delay_seconds |-> delay,
     chatbot_message |-> message]
NoDoc == Doc(<< >>, << >>, Missing, Missing, Missing, Missing)

Stmt(op, key, val) == [op |-> op, key |-> key, val |-> val]
IsNone(v) == v.k \in {"missing", "null"}

\* the statements parse_command / parse_json_response runs for a document
Stmts(v, doc) ==
    LET ds == [i \in 1..Len(doc.device_states) |->
                  Stmt("device", doc.device_states[i][1], doc.device_states[i][2])]
        li == [i \in 1..Len(doc.light_intensity) |->
                  Stmt("intensity", doc.light_intensity[i][1], doc.light_intensity[i][2])]
        an == IF IsNone(doc.servo_motor_angle) THEN << >>
              ELSE <<Stmt("angle", ServoKey, doc.servo_motor_angle)>>
        di == IF IsNone(doc.servo_motor_direction) THEN << >>
              ELSE <<Stmt("direction", ServoKey, doc.servo_motor_direction)>>
        msg == IF doc.chatbot_message.k = "missing" THEN << >>
               ELSE <<Stmt("device", "chatbot message", doc.chatbot_message)>>
    IN  CASE v = "v7" -> ds \o li \o an \o di
          [] v = "v6" -> ds
          [] OTHER -> ds \o msg

Exec(v, d, st) ==
    CASE st.op = "device" /\ v = "v7" -> MergeDeviceV7(d, st.key, st.val)
      [] st.op = "device" /\ v # "v7" -> MergeDeviceV6(d, st.key, st.val)
      [] st.op = "intensity" -> MergeIntensity(d, st.key, st.val)
      [] st.op = "angle" -> MergeServoAngle(d, st.val)
      [] st.op = "direction" -> MergeServoDirection(d, st.val)

\* the whole merge of a document when nothing else runs in between
RECURSIVE MergeFrom(_, _, _, _)
MergeFrom(v, d, sts, i) ==
    IF i > Len(sts) THEN Ok(d)
    ELSE LET r == Exec(v, d, sts[i])
         IN  IF r.raised THEN r ELSE MergeFrom(v, r.states, sts, i + 1)
Merge(v, d, doc) == MergeFrom(v, d, Stmts(v, doc), 1)

(***************************************************************************)
(* What parse_command hands to the handler and what the handler makes of   *)
(* delay_seconds: "none" (parse_command returned None, or a falsy dict),   *)
(* "crash" (int() raised in the handler, outside any try), or the delay.   *)
(***************************************************************************)
Delay(n) == [kind |-> "delay", n |-> n]
NoResult == [kind |-> "none", n |-> 0]
Crash == [kind |-> "crash", n |-> 0]

DelayOf(v, doc) ==
    LET given == IF doc.delay_seconds.k = "missing" THEN Num(0) ELSE doc.delay_seconds
        parsed == PyInt(given)
    IN  CASE v = "v7" -> IF parsed.ok THEN Delay(parsed.n) ELSE NoResult
          [] v = "v6" -> IF parsed.ok THEN Delay(parsed.n) ELSE Crash
          [] OTHER -> IF doc.device_states = << >> /\ doc.chatbot_message.k = "missing"
                      THEN NoResult ELSE Delay(0)

(***************************************************************************)
(* The frame send_device_states writes for one item of the dictionary: the *)
(* csv row between START and END.  raised: state["state"] and the like     *)
(* raise KeyError on a dict without the key.                               *)
(***************************************************************************)
Row(cells) == [raised |-> FALSE, cells |-> cells]
NoRow == [raised |-> TRUE, cells |-> << >>]

FrameV7(dev, state) ==
    IF IsDict(state)
    THEN IF dev \in DimmableLights
         THEN IF HasKey(state, "state") /\ HasKey(state, "intensity")
              THEN Row(<<Str(dev), state.f["state"], state.f["intensity"]>>)
              ELSE NoRow
         ELSE IF dev = ServoKey
         THEN IF HasKey(state, "direction") /\ HasKey(state, "degrees")
              THEN Row(<<Str(dev), state.f["direction"], state.f["degrees"]>>)
              ELSE NoRow
         ELSE Row(<< >>)                       \* no row written: "STARTEND"
    ELSE Row(<<Str(dev), state>>)

FrameV6(dev, state) == Row(<<Str(dev), state>>)

Frame(v, dev, state) == IF v = "v7" THEN FrameV7(dev, state) ELSE FrameV6(dev, state)

(***************************************************************************)
(* The documents and the /command bodies the requests of a run carry.      *)
(***************************************************************************)
VoiceDocs(v) ==
    CASE v = "v7" ->
           {Doc(<< <<"kitchen light", On>>, <<"room 2 light", On>> >>, << >>,
                Missing, Missing, Missing, Str("done")),
            Doc(<< >>, << <<"room 2 light", Str("75%")>> >>,
                Str("190"), Str("clock"), Num(5), Missing),
            Doc(<< <<"TV", On>> >>, << >>, Missing, Missing, Str("soon"), Missing)}
      [] v = "v6" ->
           {Doc(<< <<"kitchen light", On>>, <<"room 1 fan", On>> >>, << >>,
                Missing, Missing, Missing, Str("done")),
            Doc(<< <<"room 2 fan", On>> >>, << >>, Missing, Missing, Num(5), Missing),
            Doc(<< <<"kitchen fan", On>> >>, << >>, Missing, Missing, Null, Missing)}
      [] OTHER ->
           {Doc(<< <<"kitchen light", On>>, <<"room 1 fan", On>> >>, << >>,
                Missing, Missing, Missing, Str("done")),
            Doc(<< <<"room 2 fan", On>> >>, << >>, Missing, Missing, Missing, Missing),
            NoDoc}

\* request.get_json() of POST /command: a dict, possibly empty
DirectBodies ==
    {MkDict(<< >>, << >>),
     MkDict(<<"TV", "room 1 light">>, [d \in {"TV", "room 1 light"} |-> On]),
     Put(InitialStates("v7"), "DC motor", On)}

(***************************************************************************)
(* State.                                                                  *)
(***************************************************************************)
VARIABLES
    variant,        \* which application runs
    ser,            \* self.ser: "none" (construction failed), "closed", "open"
    faults,         \* serial failures injected so far
    device_states,  \* controller.device_states
    cmd,            \* per request: where its handler is
    snd,            \* per request: the send_device_states call it causes
    lastWriter,     \* the call that wrote the most recent frame on the port (0: none)
    wire,           \* per device id: the most recent frame written for it on the port
    audit           \* the history the run keeps: "none"; "frames": the frames
                    \* each call wrote and the dictionaries it saw; "all": also
                    \* what each request carried and the last writer on the port;
                    \* "port": only the most recent frame of each device

vars == <<variant, ser, faults, device_states, cmd, snd, lastWriter, wire, audit>>

Variants == {"v7", "v6", "merged"}

\* kind: "voice", "direct" or "rejected"; doc / body: what the request carried;
\* i: the statement parse_command is at; result: the response's status;
\* during: the requests whose merge was under way when this one arrived
IdleCmd ==
    [st |-> "idle", kind |-> "none", doc |-> NoDoc, body |-> MkDict(<< >>, << >>),
     i |-> 0, result |-> "none", during |-> {}]
Merging == {b \in Cmds : cmd[b].st = "merge"}
\* st: "none", "timer" (threading.Timer started), "ready" (thread started),
\* "run" (in the loop), "sleep" (in the loop, inside time.sleep, where the
\* pause is a step of its own), "done" (returned); pos: items iterated; live / d:
\* the dictionary iterated; out: the rows written; seen: the dictionaries
\* that existed during the call; calls: how often the call was entered
NoSendSkippingFirst ==
    [st |-> "none", pos |-> 1, live |-> TRUE, d |-> MkDict(<< >>, << >>),
     out |-> << >>, ok |-> FALSE, seen |-> {}, calls |-> 0, deferred |-> FALSE]
NoSend ==
    [st |-> "none", pos |-> 0, live |-> TRUE, d |-> MkDict(<< >>, << >>),
     out |-> << >>, ok |-> FALSE, seen |-> {}, calls |-> 0, deferred |-> FALSE]

Start ==
    /\ variant \in Variants
    /\ ser \in {"closed", "none"}
    /\ faults = 0
    /\ device_states = InitialStates(variant)
    /\ cmd = [c \in Cmds |-> IdleCmd]
    /\ snd = [c \in Cmds |-> NoSend]
    /\ lastWriter = 0
    /\ wire = << >>

Init == Start /\ audit = "all"

\* the handler of a request returns its response
Settled(rec, st, result) ==
    IF audit = "all" THEN [rec EXCEPT !.st = st, !.result = result, !.i = 0]
    ELSE [IdleCmd EXCEPT !.st = st, !.kind = rec.kind, !.result = result]

\* requests are numbered in the order they arrive
Arrives(c) == cmd[c].st = "idle" /\ \A b \in Cmds : b < c => cmd[b].st # "idle"

\* the dictionary a running call iterates: the live one, or the one that
\* was controller.device_states when the call took .items() and has been
\* replaced since
Iterated(s) == IF s.live THEN device_states ELSE s.d

\* every running call has now seen the dictionary nd as well
\* the port has received the row cells for the device dev
Wired(w, dev, cells) ==
    [x \in (DOMAIN w) \cup {dev} |-> IF x = dev THEN cells ELSE w[x]]

InLoop(s) == s.st \in {"run", "sleep"}
Seeing(s, nd) == IF audit \in {"frames", "all"} /\ InLoop(s) THEN [s EXCEPT !.seen = @ \cup {nd}] ELSE s

(***************************************************************************)
(* POST /voice-command.                                                    *)
(***************************************************************************)
\* the command text is empty, or chain.run / output_parser.parse raises
ReceiveRejected(c) ==
    /\ Arrives(c)
    /\ cmd' = [cmd EXCEPT ![c] =
                 [IdleCmd EXCEPT !.st = "done", !.kind = "rejected", !.result = "error"]]
    /\ UNCHANGED <<variant, ser, faults, audit, device_states, snd, lastWriter, wire>>

ReceiveVoice(c, doc) ==
    /\ Arrives(c)
    /\ cmd' = [cmd EXCEPT ![c] =
                 [IdleCmd EXCEPT !.st = "merge", !.kind = "voice", !.doc = doc, !.i = 1,
                                 !.during = IF audit = "all" THEN Merging ELSE {}]]
    /\ UNCHANGED <<variant, ser, faults, audit, device_states, snd, lastWriter, wire>>

MergeStep(c) ==
    /\ cmd[c].st = "merge"
    /\ cmd[c].i <= Len(Stmts(variant, cmd[c].doc))
    /\ LET r == Exec(variant, device_states, Stmts(variant, cmd[c].doc)[cmd[c].i])
       IN  /\ device_states' = r.states
           /\ cmd' = [cmd EXCEPT ![c] =
                        IF r.raised
                        THEN Settled(@, "done", "error")
                        ELSE [@ EXCEPT !.i = @ + 1]]
           /\ snd' = [x \in Cmds |-> Seeing(snd[x], r.states)]
    /\ UNCHANGED <<variant, ser, faults, audit, lastWriter, wire>>

\* threading.Timer(delay_seconds, ...).start() or threading.Thread(...).start()
\* for request c: the sends of the other requests are left alone
ScheduleCancelling(c, n) ==
    [x \in Cmds |->
        IF x = c THEN [snd[c] EXCEPT !.st = IF n > 0 THEN "timer" ELSE "ready",
                                     !.deferred = n > 0]
        ELSE IF snd[x].st = "timer" THEN NoSend ELSE snd[x]]
Schedule(c, n) ==
    [snd EXCEPT ![c].st = IF n > 0 THEN "timer" ELSE "ready", ![c].deferred = n > 0]

\* where the handler is once the send is arranged: it has responded, except
\* in the merged application, whose handler is inside send_device_states
AlwaysInSend(v) == "insend"
HandlerAfterDispatch(v) == IF v = "merged" THEN "insend" ELSE "done"

\* parse_command returns; the handler starts the thread or the timer and
\* returns its response (st = "done"); the merged application calls
\* send_device_states itself and responds when that call has returned
Dispatch(c) ==
    /\ cmd[c].st = "merge"
    /\ cmd[c].i > Len(Stmts(variant, cmd[c].doc))
    /\ LET r == DelayOf(variant, cmd[c].doc)
       IN  CASE r.kind = "none" ->
                  /\ cmd' = [cmd EXCEPT ![c] = Settled(@, "done", "error")]
                  /\ snd' = snd
             [] r.kind = "crash" ->
                  /\ cmd' = [cmd EXCEPT ![c] = Settled(@, "done", "crash")]
                  /\ snd' = snd
             [] OTHER ->
                  /\ cmd' = [cmd EXCEPT ![c] =
                               Settled(@, HandlerAfterDispatch(variant), "success")]
                  /\ snd' = Schedule(c, r.n)
    /\ UNCHANGED <<variant, ser, faults, audit, device_states, lastWriter, wire>>

(***************************************************************************)
(* POST /command (version 7 only).                                         *)
(***************************************************************************)
ReceiveDirect(c, new_states) ==
    /\ variant = "v7"
    /\ Arrives(c)
    /\ IF new_states.keys = << >>
       THEN /\ cmd' = [cmd EXCEPT ![c] =
                         [IdleCmd EXCEPT !.st = "done", !.kind = "direct", !.result = "bad request"]]
            /\ UNCHANGED <<device_states, snd>>
       ELSE /\ device_states' = new_states
            /\ cmd' = [cmd EXCEPT ![c] =
                         Settled([IdleCmd EXCEPT !.kind = "direct", !.body = new_states,
                                                 !.during = IF audit = "all" THEN Merging ELSE {}],
                                 "done", "success")]
            /\ snd' = [x \in Cmds |->
                         IF x = c THEN [NoSend EXCEPT !.st = "ready"]
                         ELSE IF InLoop(snd[x]) /\ snd[x].live
                         THEN [Seeing(snd[x], new_states) EXCEPT !.live = FALSE, !.d = device_states]
                         ELSE Seeing(snd[x], new_states)]
    /\ UNCHANGED <<variant, ser, faults, audit, lastWriter, wire>>

(***************************************************************************)
(* send_device_states.                                                     *)
(***************************************************************************)
\* the call returns ok and its locals are gone; in the merged application
\* the handler then responds
ReturnedTrue(c, ok) ==
    /\ snd' = [snd EXCEPT ![c] =
                 [NoSend EXCEPT !.st = "done", !.ok = TRUE, !.deferred = snd[c].deferred,
                                !.calls = IF snd[c].st = "ready" THEN snd[c].calls + 1
                                          ELSE snd[c].calls]]
    /\ cmd' = IF cmd[c].st = "insend" THEN [cmd EXCEPT ![c].st = "done"] ELSE cmd
Returned(c, ok) ==
    /\ snd' = [snd EXCEPT ![c] =
                 [NoSend EXCEPT !.st = "done", !.ok = ok, !.deferred = snd[c].deferred,
                                !.calls = IF snd[c].st = "ready" THEN snd[c].calls + 1
                                          ELSE snd[c].calls]]
    /\ cmd' = IF cmd[c].st = "insend" THEN [cmd EXCEPT ![c].st = "done"] ELSE cmd

TimerFire(c) ==
    /\ snd[c].st = "timer"
    /\ snd' = [snd EXCEPT ![c].st = "ready"]
    /\ UNCHANGED <<variant, ser, faults, audit, device_states, cmd, lastWriter, wire>>

\* a failed open leaves self.ser unusable for the calls after it
SendStartLatching(c) ==
    /\ snd[c].st = "ready"
    /\ \/ /\ ser = "none"
          /\ Returned(c, FALSE)
          /\ UNCHANGED <<ser, faults>>
       \/ /\ ser # "none"
          /\ ser' = "open"
          /\ snd' = [snd EXCEPT ![c].st = "run",
                                 ![c].seen = IF audit \in {"frames", "all"} THEN {device_states} ELSE {},
                                 ![c].calls = @ + 1]
          /\ UNCHANGED <<cmd, faults>>
       \/ /\ ser = "closed"
          /\ faults < MaxFaults
          /\ faults' = faults + 1
          /\ Returned(c, FALSE)
          /\ ser' = "none"
    /\ UNCHANGED <<variant, audit, device_states, lastWriter, wire>>

\* "if not self.ser.is_open: self.ser.open()", then .items() is taken
SendStart(c) ==
    /\ snd[c].st = "ready"
    /\ \/ /\ ser = "none"
          /\ Returned(c, FALSE)
          /\ UNCHANGED <<ser, faults>>
       \/ /\ ser # "none"
          /\ ser' = "open"
          /\ snd' = [snd EXCEPT ![c].st = "run",
                                 ![c].seen = IF audit \in {"frames", "all"} THEN {device_states} ELSE {},
                                 ![c].calls = @ + 1]
          /\ UNCHANGED <<cmd, faults>>
       \/ /\ ser = "closed"
          /\ faults < MaxFaults
          /\ faults' = faults + 1
          /\ Returned(c, FALSE)
          /\ UNCHANGED ser
    /\ UNCHANGED <<variant, audit, device_states, lastWriter, wire>>

\* one iteration of the loop: build the row, write it, sleep
SendFrame(c) ==
    /\ snd[c].st = "run"
    /\ snd[c].pos < Len(Iterated(snd[c]).keys)
    /\ LET it == Iterated(snd[c])
           dev == it.keys[snd[c].pos + 1]
           row == Frame(variant, dev, it.vals[dev])
       IN  \/ /\ row.raised
              /\ Returned(c, FALSE)
              /\ UNCHANGED <<faults, lastWriter, wire>>
           \/ /\ ~row.raised
              /\ snd' = [snd EXCEPT ![c].pos = @ + 1,
                                     ![c].out = IF audit \in {"frames", "all"} THEN Append(@, row.cells) ELSE @]
              /\ lastWriter' = IF audit = "all" THEN c ELSE lastWriter
              /\ wire' = IF audit = "port" THEN Wired(wire, dev, row.cells) ELSE wire
              /\ UNCHANGED <<cmd, faults>>
           \/ /\ ~row.raised
              /\ faults < MaxFaults
              /\ faults' = faults + 1
              /\ Returned(c, FALSE)
              /\ UNCHANGED <<lastWriter, wire>>
    /\ UNCHANGED <<variant, ser, audit, device_states>>

\* the same iteration in two steps, for the pace of the port: the row is
\* built and written, and the call is inside time.sleep(0.3) ...
SendWrite(c) ==
    /\ snd[c].st = "run"
    /\ snd[c].pos < Len(Iterated(snd[c]).keys)
    /\ LET it == Iterated(snd[c])
           dev == it.keys[snd[c].pos + 1]
           row == Frame(variant, dev, it.vals[dev])
       IN  \/ /\ row.raised
              /\ Returned(c, FALSE)
              /\ UNCHANGED <<faults, lastWriter, wire>>
           \/ /\ ~row.raised
              /\ snd' = [snd EXCEPT ![c].st = "sleep",
                                     ![c].pos = @ + 1,
                                     ![c].out = IF audit \in {"frames", "all"} THEN Append(@, row.cells) ELSE @]
              /\ lastWriter' = IF audit = "all" THEN c ELSE lastWriter
              /\ wire' = IF audit = "port" THEN Wired(wire, dev, row.cells) ELSE wire
              /\ UNCHANGED <<cmd, faults>>
           \/ /\ ~row.raised
              /\ faults < MaxFaults
              /\ faults' = faults + 1
              /\ Returned(c, FALSE)
              /\ UNCHANGED <<lastWriter, wire>>
    /\ UNCHANGED <<variant, ser, audit, device_states>>

\* ... and time.sleep(0.3) returns
SendSlept(c) ==
    /\ snd[c].st = "sleep"
    /\ snd' = [snd EXCEPT ![c].st = "run"]
    /\ UNCHANGED <<variant, ser, faults, audit, device_states, cmd, lastWriter, wire>>

\* the call puts the dictionary back as __init__ made it before returning
SendReturnResetting(c) ==
    /\ snd[c].st = "run"
    /\ snd[c].pos = Len(Iterated(snd[c]).keys)
    /\ Returned(c, TRUE)
    /\ device_states' = InitialStates(variant)
    /\ UNCHANGED <<variant, ser, faults, audit, lastWriter, wire>>

SendReturn(c) ==
    /\ snd[c].st = "run"
    /\ snd[c].pos = Len(Iterated(snd[c]).keys)
    /\ Returned(c, TRUE)
    /\ UNCHANGED <<variant, ser, faults, audit, device_states, lastWriter, wire>>

Next ==
    \/ \E c \in Cmds : ReceiveRejected(c)
    \/ \E c \in Cmds : \E doc \in VoiceDocs(variant) : ReceiveVoice(c, doc)
    \/ \E c \in Cmds : MergeStep(c)
    \/ \E c \in Cmds : Dispatch(c)
    \/ \E c \in Cmds : \E b \in DirectBodies : ReceiveDirect(c, b)
    \/ \E c \in Cmds : TimerFire(c)
    \/ \E c \in Cmds : SendStart(c)
    \/ \E c \in Cmds : SendFrame(c)
    \/ \E c \in Cmds : SendReturn(c)

Spec == Init /\ [][Next]_vars

(***************************************************************************)
(* The scheduling of the sends alone: the same handlers and the same       *)
(* send_device_states, on requests that differ only in what they make the  *)
(* handler schedule, without the history.  Threads and timers that have    *)
(* been started get to run.                                                *)
(***************************************************************************)
SchedDocs(v) ==
    CASE v = "v7" ->
           {Doc(<< <<"TV", On>> >>, << >>, Missing, Missing, Missing, Missing),
            Doc(<< <<"TV", On>> >>, << >>, Missing, Missing, Num(5), Missing),
            Doc(<< <<"TV", On>> >>, << >>, Missing, Missing, Str("soon"), Missing)}
      [] v = "v6" ->
           {Doc(<< <<"room 2 fan", On>> >>, << >>, Missing, Missing, Num(-5), Missing),
            Doc(<< <<"room 2 fan", On>> >>, << >>, Missing, Missing, Num(5), Missing),
            Doc(<< <<"room 2 fan", On>> >>, << >>, Missing, Missing, Null, Missing)}
      [] OTHER ->
           {Doc(<< <<"room 2 fan", On>> >>, << >>, Missing, Missing, Missing, Missing),
            NoDoc}

SchedBodies ==
    {MkDict(<< >>, << >>),
     MkDict(<<"TV", "room 1 light">>, [d \in {"TV", "room 1 light"} |-> On])}

SendThread(c) == TimerFire(c) \/ SendStart(c) \/ SendFrame(c) \/ SendReturn(c)

SchedNext ==
    \/ \E c \in Cmds : ReceiveRejected(c)
    \/ \E c \in Cmds : \E doc \in SchedDocs(variant) : ReceiveVoice(c, doc)
    \/ \E c \in Cmds : MergeStep(c)
    \/ \E c \in Cmds : Dispatch(c)
    \/ \E c \in Cmds : \E b \in SchedBodies : ReceiveDirect(c, b)
    \/ \E c \in Cmds : TimerFire(c)
    \/ \E c \in Cmds : SendStart(c)
    \/ \E c \in Cmds : SendFrame(c)
    \/ \E c \in Cmds : SendReturn(c)

SchedInit == Start /\ audit = "none"

SchedSpec ==
    /\ SchedInit
    /\ [][SchedNext]_vars
    /\ \A c \in Cmds : WF_vars(SendThread(c))

(***************************************************************************)
(* The merge alone: the same handlers and the same send_device_states, on  *)
(* documents that differ in what they make parse_command write (malformed  *)
(* and out-of-range values, unknown devices, values of another shape),     *)
(* with the frames the calls write.                                        *)
(***************************************************************************)
MergeDocs(v) ==
    CASE v = "v7" ->
           {Doc(<< <<"room 2 light", Dict([intensity |-> Str("abc%")])>> >>,
                << <<"room 3 light", Str("abc%")>> >>, Missing, Missing, Missing, Missing),
            Doc(<< >>, << <<"room 2 light", Str("150")>>, <<"room 3 light", Str("-5")>> >>,
                Missing, Missing, Missing, Missing),
            Doc(<< <<"Servo motor", Dict([degrees |-> Num(190)])>> >>, << >>,
                Str("200°"), Str("clock"), Missing, Missing),
            Doc(<< <<"garage door", Off>>, <<"TV", Dict([state |-> On])>> >>,
                << <<"garage door", Str("75%")>> >>, Missing, Missing, Missing, Missing),
            Doc(<< <<"room 2 light", On>> >>, << >>, Missing, Missing, Num(5), Missing),
            Doc(<< <<"room 2 light", Dict([intensity |-> Num(30)])>> >>,
                << <<"room 2 light", Str("75%")>> >>, Missing, Missing, Missing, Missing)}
      [] v = "v6" ->
           {Doc(<< <<"garage door", On>>, <<"kitchen light", Dict([state |-> On])>> >>,
                << >>, Missing, Missing, Missing, Missing)}
      [] OTHER ->
           {Doc(<< <<"garage door", On>>, <<"kitchen light", Dict([state |-> On])>> >>,
                << >>, Missing, Missing, Missing, Str("done"))}

\* request.get_json() of POST /command: empty, or a dict of the caller's making
MergeBodies ==
    {MkDict(<< >>, << >>),
     MkDict(<<"TV", "garage door", "room 2 light">>,
            [d \in {"TV", "garage door", "room 2 light"} |->
                IF d = "room 2 light" THEN Off ELSE On])}

MergeNext ==
    \/ \E c \in Cmds : \E doc \in MergeDocs(variant) : ReceiveVoice(c, doc)
    \/ \E c \in Cmds : MergeStep(c)
    \/ \E c \in Cmds : Dispatch(c)
    \/ \E c \in Cmds : \E b \in MergeBodies : ReceiveDirect(c, b)
    \/ \E c \in Cmds : TimerFire(c)
    \/ \E c \in Cmds : SendStart(c)
    \/ \E c \in Cmds : SendFrame(c)
    \/ \E c \in Cmds : SendReturn(c)

MergeInit == Start /\ audit = "frames"

MergeSpec == MergeInit /\ [][MergeNext]_vars

(***************************************************************************)
(* Sends of one store: the same handlers and the same send_device_states,  *)
(* with the history, on requests that ask for the same thing again, so     *)
(* that calls run on a store that does not change as well as on one that   *)
(* does.                                                                   *)
(***************************************************************************)
ResendDocs(v) ==
    IF v = "v7"
    THEN {Doc(<< <<"TV", On>> >>, << >>, Missing, Missing, Missing, Missing),
          Doc(<< <<"room 2 light", Dict([state |-> On, intensity |-> Num(30)])>> >>,
              << >>, Missing, Missing, Num(5), Missing)}
    ELSE {Doc(<< <<"room 2 fan", On>> >>, << >>, Missing, Missing, Missing, Str("done"))}

ResendBodies == {Put(InitialStates("v7"), "TV", On)}

ResendNext ==
    \/ \E c \in Cmds : \E doc \in ResendDocs(variant) : ReceiveVoice(c, doc)
    \/ \E c \in Cmds : MergeStep(c)
    \/ \E c \in Cmds : Dispatch(c)
    \/ \E c \in Cmds : \E b \in ResendBodies : ReceiveDirect(c, b)
    \/ \E c \in Cmds : TimerFire(c)
    \/ \E c \in Cmds : SendStart(c)
    \/ \E c \in Cmds : SendFrame(c)
    \/ \E c \in Cmds : SendReturn(c)

ResendInit == Start /\ audit = "frames"

ResendSpec == ResendInit /\ [][ResendNext]_vars

(***************************************************************************)
(* The port at rest: the same requests as for the sends of one store, with *)
(* the most recent frame the port received for each device.                *)
(***************************************************************************)
LastInit == Start /\ audit = "port"

LastSpec == LastInit /\ [][ResendNext]_vars

(***************************************************************************)
(* The pace of the port: the same handlers and the same send_device_states *)
(* on the requests of the scheduling, with the pause after each write as a *)
(* step of its own, so that what the other calls do during a pause shows.  *)
(***************************************************************************)
PaceNext ==
    \/ \E c \in Cmds : ReceiveRejected(c)
    \/ \E c \in Cmds : \E doc \in SchedDocs(variant) : ReceiveVoice(c, doc)
    \/ \E c \in Cmds : MergeStep(c)
    \/ \E c \in Cmds : Dispatch(c)
    \/ \E c \in Cmds : \E b \in SchedBodies : ReceiveDirect(c, b)
    \/ \E c \in Cmds : TimerFire(c)
    \/ \E c \in Cmds : SendStart(c)
    \/ \E c \in Cmds : SendWrite(c)
    \/ \E c \in Cmds : SendSlept(c)
    \/ \E c \in Cmds : SendReturn(c)

PaceInit == Start /\ audit = "none"

PaceSpec == PaceInit /\ [][PaceNext]_vars

(***************************************************************************)
(* Vocabulary of the properties.                                           *)
(***************************************************************************)
NoMergeRunning == Merging = {}
Accepted(c) == cmd[c].result = "success"
Replaced == \E c \in Cmds : cmd[c].kind = "direct" /\ cmd[c].result = "success"

\* a Dimmable entry: intensity > 0 exactly when its state is on
DimmableOK(v) ==
    /\ IsDict(v) /\ HasKey(v, "state") /\ HasKey(v, "intensity")
    /\ v.f["intensity"].k = "int"
    /\ (v.f["intensity"].n > 0) <=> (v.f["state"] = On)

\* the Actuator entry: degrees in 0..180, direction one of the three
ActuatorOK(v) ==
    /\ IsDict(v) /\ HasKey(v, "direction") /\ HasKey(v, "degrees")
    /\ v.f["degrees"].k = "int" /\ v.f["degrees"].n \in 0..180
    /\ v.f["direction"].k = "str" /\ v.f["direction"].s \in Directions

\* the rows a call writes when it iterates the dictionary d undisturbed
FramesOf(v, d) == [i \in 1..Len(d.keys) |-> Frame(v, d.keys[i], d.vals[d.keys[i]]).cells]

\* the call has written a row for every item and is about to return True
AllWritten(c) == snd[c].st = "run" /\ snd[c].pos = Len(Iterated(snd[c]).keys)

\* the devices a request sets, and the value it sets each to
Targets(c) ==
    IF cmd[c].kind = "voice"
    THEN LET doc == cmd[c].doc
         IN  ({doc.device_states[i][1] : i \in 1..Len(doc.device_states)}
              \cup {doc.light_intensity[i][1] : i \in 1..Len(doc.light_intensity)}
              \cup (IF IsNone(doc.servo_motor_angle) /\ IsNone(doc.servo_motor_direction)
                    THEN {} ELSE {ServoKey}))
             \cap KeySet(InitialStates(variant))
    ELSE IF cmd[c].kind = "direct"
    THEN {k \in KeySet(cmd[c].body) :
            k \notin KeySet(InitialStates(variant))
            \/ cmd[c].body.vals[k] # InitialStates(variant).vals[k]}
    ELSE {}
Wanted(c, dev) ==
    IF cmd[c].kind = "voice"
    THEN Merge(variant, InitialStates(variant), cmd[c].doc).states.vals[dev]
    ELSE cmd[c].body.vals[dev]
Overlapped(b, c) == b \in cmd[c].during \/ c \in cmd[b].during

\* delay_seconds is absent, or not a number, or negative
DelayInvalid(doc) ==
    \/ doc.delay_seconds.k = "missing"
    \/ ~PyInt(doc.delay_seconds).ok
    \/ PyInt(doc.delay_seconds).n < 0

\* the step is one iteration of parse_command's loops in the handler of c;
\* StmtAt is the statement it runs, Failed says it raised out of the try
Merges(c) ==
    /\ cmd[c].st = "merge"
    /\ cmd[c].i <= Len(Stmts(variant, cmd[c].doc))
    /\ (cmd'[c].st = "done" \/ cmd'[c].i = cmd[c].i + 1)
StmtAt(c) == Stmts(variant, cmd[c].doc)[cmd[c].i]
Failed(c) == cmd'[c].st = "done"

\* what a document gives as an intensity: an int, or a string with "%"
IntensityOf(v) ==
    IF v.k = "str" THEN ParseInt(RStrip(Chars(v.s), {"%"})) ELSE PyInt(v)
Clamp(n, lo, hi) == IF n < lo THEN lo ELSE IF n > hi THEN hi ELSE n

\* the devices of each shape
BinaryDevices(v) ==
    KeySet(InitialStates(v)) \ (IF v = "v7" THEN DimmableLights \cup {ServoKey} ELSE {})
\* a written row has the record of its device's shape: id,on|off for a
\* Binary device, id,on|off,intensity for a Dimmable one, id,direction,degrees
\* for the Actuator
WellShaped(v, cells) ==
    /\ cells # << >>
    /\ IF v = "v7" /\ cells[1].s \in DimmableLights
       THEN Len(cells) = 3 /\ cells[2] \in {On, Off} /\ cells[3].k = "int"
       ELSE IF v = "v7" /\ cells[1].s = ServoKey
       THEN Len(cells) = 3 /\ cells[2].k = "str" /\ cells[3].k = "int"
       ELSE Len(cells) = 2 /\ cells[2] \in {On, Off}

(***************************************************************************)
(* The claims.                                                             *)
(***************************************************************************)
\* C1: after every merge of a document by parse_command, every Dimmable
\* entry (room 2 light, room 3 light) has intensity > 0 iff its state is on.
C1_DimmableInvariant ==
    (variant = "v7" /\ NoMergeRunning /\ ~Replaced) =>
        \A l \in DimmableLights : DimmableOK(device_states.vals[l])

\* C2: after every merge, the Servo motor entry has degrees within 0..180
\* and a direction among clock, anti, none.
C2_ActuatorInvariant ==
    (variant = "v7" /\ NoMergeRunning /\ ~Replaced) =>
        ActuatorOK(device_states.vals[ServoKey])

\* C3: in every reachable state the key set of the dictionary is the key
\* set __init__ created: no key missing, no key added.
C3_KeySetFixed == KeySet(device_states) = KeySet(InitialStates(variant))

\* C4: the frames of one send_device_states call form a contiguous block on
\* the port: a call that has written a frame and writes its next one finds
\* its own frame as the most recent one on the port.
C4_NoInterleaving ==
    [][\A c \in Cmds :
         (snd[c].st = "run" /\ snd[c].pos > 0 /\ snd'[c].st = "run"
            /\ snd'[c].pos = snd[c].pos + 1) => lastWriter = c]_vars

\* C5: the frames one call has written all encode one and the same
\* dictionary state, one that existed at some moment of the call.
C5_SingleSnapshot ==
    \A c \in Cmds :
        AllWritten(c) => \E d \in snd[c].seen : snd[c].out = FramesOf(variant, d)

\* C6: two accepted requests that were processed concurrently and set
\* different devices are both reflected in the dictionary once no merge runs.
C6_NoLostUpdate ==
    NoMergeRunning =>
        \A b, c \in Cmds :
            (b # c /\ Accepted(b) /\ Accepted(c) /\ Overlapped(b, c)
               /\ \A x, y \in Cmds : x # y => Targets(x) \cap Targets(y) = {})
            => \A dev \in Targets(c) :
                  dev \in KeySet(device_states) /\ device_states.vals[dev] = Wanted(c, dev)

\* C7: a call that wrote all its frames without channel error wrote exactly
\* one frame per registry device, in the registry's insertion order.
C7_RegistryOrder ==
    \A c \in Cmds :
        AllWritten(c) =>
            /\ Len(snd[c].out) = Len(Registry(variant))
            /\ \A i \in 1..Len(snd[c].out) :
                  snd[c].out[i] # << >> /\ snd[c].out[i][1] = Str(Registry(variant)[i])

\* C10: a voice command whose delay_seconds is missing or invalid is
\* answered with success and its send is dispatched at once, without timer.
C10_InvalidDelayIsZero ==
    \A c \in Cmds :
        (variant # "merged" /\ cmd[c].kind = "voice" /\ cmd[c].st = "done"
           /\ DelayInvalid(cmd[c].doc) /\ ~Replaced)
        => (cmd[c].result = "success" /\ snd[c].st \in {"ready", "run", "done"})

\* C8: every accepted command causes exactly one send_device_states run: its
\* send is scheduled with the acceptance, is entered at most once, is not
\* cancelled by a later command, and from some moment on it has run, exactly
\* once (an acceptance is never withdrawn, so this is "eventually" for each).
C8_EverySendRunsOnce ==
    /\ [](\A c \in Cmds : Accepted(c) => (snd[c].st # "none" /\ snd[c].calls <= 1))
    /\ <>[](\A c \in Cmds : Accepted(c) => (snd[c].st = "done" /\ snd[c].calls = 1))

\* a deferred send has run, once, and so has the send of a later command
C8_Witness ==
    \E b, c \in Cmds :
        /\ b < c /\ Accepted(b) /\ Accepted(c)
        /\ snd[b].deferred /\ snd[b].st = "done" /\ snd[b].calls = 1
        /\ snd[c].st = "done" /\ snd[c].calls = 1

C11_MalformedIntensitySkipped ==
    [][\A c \in Cmds :
         (/\ Merges(c)
          /\ StmtAt(c).key \in DimmableLights
          /\ \/ StmtAt(c).op = "intensity" /\ ~IntensityOf(StmtAt(c).val).ok
             \/ /\ StmtAt(c).op = "device" /\ IsDict(StmtAt(c).val)
                /\ HasKey(StmtAt(c).val, "intensity")
                /\ ~IntensityOf(StmtAt(c).val.f["intensity"]).ok)
         => /\ ~Failed(c)
            /\ StmtAt(c).key \in KeySet(device_states) =>
                  device_states'.vals[StmtAt(c).key] = device_states.vals[StmtAt(c).key]]_vars

\* C12: a merge step that carries a well-formed intensity n for a Dimmable
\* device stores n clamped to 0..100, with the device on iff that is > 0.
C12_IntensityClamped ==
    [][\A c \in Cmds :
         (/\ Merges(c)
          /\ StmtAt(c).op = "intensity"
          /\ StmtAt(c).key \in DimmableLights
          /\ IntensityOf(StmtAt(c).val).ok)
         => LET n == Clamp(IntensityOf(StmtAt(c).val).n, 0, 100)
            IN  /\ StmtAt(c).key \in KeySet(device_states')
                /\ device_states'.vals[StmtAt(c).key] =
                      Dict([state |-> IF n > 0 THEN On ELSE Off, intensity |-> Num(n)])]_vars

\* C13: a merge step that carries a servo angle n (servo_motor_angle, with
\* or without the degree sign, or degrees in the per-device map) stores n
\* clamped to 0..180, and servo_motor_direction "clock" is stored as clock.
C13_ServoAngleClamped ==
    [][\A c \in Cmds :
         Merges(c) =>
            /\ (StmtAt(c).op = "angle"
                   /\ ParseInt(RStrip(PyStr(StmtAt(c).val), {"Â", "°"})).ok)
                => /\ ServoKey \in KeySet(device_states')
                   /\ IsDict(device_states'.vals[ServoKey])
                   /\ device_states'.vals[ServoKey].f["degrees"] =
                         Num(Clamp(ParseInt(RStrip(PyStr(StmtAt(c).val), {"Â", "°"})).n, 0, 180))
            /\ (StmtAt(c).op = "device" /\ StmtAt(c).key = ServoKey
                   /\ IsDict(StmtAt(c).val) /\ HasKey(StmtAt(c).val, "degrees")
                   /\ PyInt(StmtAt(c).val.f["degrees"]).ok)
                => /\ ServoKey \in KeySet(device_states')
                   /\ IsDict(device_states'.vals[ServoKey])
                   /\ device_states'.vals[ServoKey].f["degrees"] =
                         Num(Clamp(PyInt(StmtAt(c).val.f["degrees"]).n, 0, 180))
            /\ (StmtAt(c).op = "direction" /\ StmtAt(c).val = Str("clock"))
                => /\ ServoKey \in KeySet(device_states')
                   /\ IsDict(device_states'.vals[ServoKey])
                   /\ device_states'.vals[ServoKey].f["direction"] = Str("clock")]_vars

\* C14: a merge step for a device id that is not in the registry (in the
\* device_states map or in the light_intensity map) does not fail and
\* changes nothing in the store.
C14_UnknownDeviceIgnored ==
    [][\A c \in Cmds :
         (/\ Merges(c)
          /\ StmtAt(c).op \in {"device", "intensity"}
          /\ StmtAt(c).key \notin KeySet(InitialStates(variant)))
         => (~Failed(c) /\ device_states' = device_states)]_vars

\* C15: a send_device_states call returns success only from the end of its
\* loop, every item written; a channel error (open or write) ends the call
\* at once with failure; a call that has returned writes nothing more and
\* is not entered again.
C15_SuccessOnlyIfAllWritten ==
    [][\A c \in Cmds :
         /\ (snd[c].st # "done" /\ snd'[c].st = "done" /\ snd'[c].ok)
               => (snd[c].st = "run" /\ snd[c].pos = Len(Iterated(snd[c]).keys))
         /\ (faults' = faults + 1 /\ snd'[c] # snd[c])
               => (snd'[c].st = "done" /\ ~snd'[c].ok)
         /\ snd[c].st = "done" => snd'[c] = snd[c]]_vars

\* a call opened the port itself and failed at a write
C15_Witness ==
    \E c \in Cmds :
        /\ snd[c].st = "done" /\ ~snd[c].ok /\ snd[c].calls = 1
        /\ faults > 0 /\ ser = "open"
        /\ \A b \in Cmds \ {c} : snd[b].st \in {"none", "timer", "ready"}

\* C16: a call during which the store was one and the same dictionary d
\* has written exactly the frames of d, item by item: any two calls on an
\* unchanged store have written the same sequence.
C16_ResendIdentical ==
    \A c \in Cmds :
        (AllWritten(c) /\ Cardinality(snd[c].seen) = 1)
        => \A d \in snd[c].seen : snd[c].out = FramesOf(variant, d)

\* two calls have written all their frames on the same unchanged store
C16_Witness ==
    \E b, c \in Cmds :
        /\ b # c /\ AllWritten(b) /\ AllWritten(c)
        /\ Cardinality(snd[b].seen) = 1 /\ snd[b].seen = snd[c].seen
        /\ snd[b].out = snd[c].out /\ Len(snd[b].out) = Len(Registry(variant))

\* C17: every frame a call has written carries a record of its device's
\* shape; no frame with an empty or differently shaped record is written.
C17_FrameShape ==
    \A c \in Cmds : \A i \in 1..Len(snd[c].out) : WellShaped(variant, snd[c].out[i])

\* C18: once no merge is running, every Binary device in the store holds
\* exactly on or off.
C18_BinaryValues ==
    NoMergeRunning =>
        \A dev \in BinaryDevices(variant) \cap KeySet(device_states) :
            device_states.vals[dev] \in {On, Off}

\* C19: a merge step that carries a bare on/off token for a Dimmable device
\* sets the device's state to it and leaves the stored intensity as it was.
C19_BareTokenKeepsIntensity ==
    [][\A c \in Cmds :
         (/\ Merges(c)
          /\ StmtAt(c).op = "device"
          /\ StmtAt(c).key \in DimmableLights
          /\ StmtAt(c).val \in {On, Off})
         => LET l == StmtAt(c).key
            IN  /\ l \in KeySet(device_states')
                /\ IsDict(device_states'.vals[l])
                /\ HasKey(device_states'.vals[l], "state")
                /\ device_states'.vals[l].f["state"] = StmtAt(c).val
                /\ l \in KeySet(device_states)
                /\ IsDict(device_states.vals[l])
                /\ HasKey(device_states.vals[l], "intensity")
                /\ HasKey(device_states'.vals[l], "intensity")
                /\ device_states'.vals[l].f["intensity"] = device_states.vals[l].f["intensity"]]_vars

\* the document of c gives an intensity for light l in its device_states map
GivesIntensity(c, l) ==
    \E i \in 1..Len(cmd[c].doc.device_states) :
        /\ cmd[c].doc.device_states[i][1] = l
        /\ IsDict(cmd[c].doc.device_states[i][2])
        /\ HasKey(cmd[c].doc.device_states[i][2], "intensity")

\* C20: when a document gives an intensity for a Dimmable device in both
\* maps, the light_intensity step, which runs after the device_states pass,
\* does not fail and leaves the intensity of the light_intensity map in the
\* store, with the on/off state derived from it.
C20_LightIntensityWins ==
    [][\A c \in Cmds :
         (/\ Merges(c)
          /\ StmtAt(c).op = "intensity"
          /\ StmtAt(c).key \in DimmableLights
          /\ IntensityOf(StmtAt(c).val).ok
          /\ GivesIntensity(c, StmtAt(c).key))
         => LET l == StmtAt(c).key
                n == IntensityOf(StmtAt(c).val).n
            IN  /\ ~Failed(c)
                /\ l \in KeySet(device_states')
                /\ device_states'.vals[l] =
                      Dict([state |-> IF n > 0 THEN On ELSE Off, intensity |-> Num(n)])]_vars


\* the timer of request c is started and has not fired
Pending(c) == Accepted(c) /\ snd[c].st = "timer"
\* request b arrived when the handler of request c had returned
After(c, b) == c < b /\ c \notin cmd[b].during
\* the devices only request c sets
OnlyTargets(c) == {dev \in Targets(c) : \A x \in Cmds \ {c} : dev \notin Targets(x)}

\* C21: a command with delay > 0 is merged when it is received: while its
\* timer is pending the store holds its change; the deferred call writes the
\* frames of the store as it is when the timer has fired; and a call started
\* for a later request while the timer is pending already writes the
\* delayed command's change.
C21_DeferredSendReadsStoreAtFire ==
    \A c \in Cmds :
        /\ Pending(c) =>
              /\ cmd[c].st = "done"
              /\ \A dev \in OnlyTargets(c) :
                    dev \in KeySet(device_states) /\ device_states.vals[dev] = Wanted(c, dev)
        /\ (snd[c].deferred /\ AllWritten(c) /\ Cardinality(snd[c].seen) = 1) =>
              \A d \in snd[c].seen : snd[c].out = FramesOf(variant, d)
        /\ \A b \in Cmds :
              (Pending(c) /\ After(c, b) /\ snd[b].st = "run") =>
                 \A i \in 1..Len(snd[b].out) :
                    Iterated(snd[b]).keys[i] \in OnlyTargets(c) =>
                       snd[b].out[i] = Frame(variant, Iterated(snd[b]).keys[i],
                                             Wanted(c, Iterated(snd[b]).keys[i])).cells


\* the step enters send_device_states for request c
Enters(c) == snd[c].st = "ready" /\ snd'[c].st # "ready"
\* the step is an open() that raises in the call of request c
OpenFails(c) == Enters(c) /\ ser = "closed" /\ faults' = faults + 1

\* C22: a call that cannot open the port returns False at once, without a
\* frame, and nothing else changes: the handlers, the store and the other
\* calls are as they were and the port is still closed, so that the next
\* call opens it again, and can; only when self.ser is None (construction
\* failed) does every call return False without a frame, for good.
C22_OpenFailureIsPerSend ==
    /\ [][\A c \in Cmds :
            /\ OpenFails(c) =>
                  /\ snd'[c].st = "done" /\ ~snd'[c].ok
                  /\ ser' = "closed"
                  /\ cmd'[c].result = cmd[c].result
                  /\ \A b \in Cmds \ {c} : cmd'[b] = cmd[b] /\ snd'[b] = snd[b]
                  /\ device_states' = device_states
            /\ (Enters(c) /\ ~OpenFails(c)) =>
                  IF ser = "none"
                  THEN snd'[c].st = "done" /\ ~snd'[c].ok /\ ser' = "none"
                  ELSE snd'[c].st = "run" /\ ser' = "open"]_vars
    /\ [](ser = "none" => \A c \in Cmds : snd[c].st # "run" /\ ~snd[c].ok)
    /\ [](ser # "none" =>
             \A c \in Cmds : snd[c].st = "ready" => ENABLED (SendStart(c) /\ ser' = "open"))

\* a call has failed at open() and the call of another accepted request
\* is about to be entered
C22_Witness ==
    \E b, c \in Cmds :
        /\ b # c /\ ser = "closed" /\ faults > 0
        /\ snd[b].st = "done" /\ ~snd[b].ok
        /\ snd[c].st = "ready" /\ Accepted(c)


\* the step writes a frame of the call of request c on the port
Writes(c) == snd[c].st = "run" /\ snd'[c].st = "sleep"
\* the call of request c has written a frame and its pause is not over
Pausing(c) == snd[c].st = "sleep"

\* C23: between any two consecutive frames on the port there is a pause:
\* when a frame is written, the pause that followed the frame before it is
\* over, whichever call wrote that frame.
C23_PauseBetweenFrames ==
    [][\A c \in Cmds : Writes(c) => \A b \in Cmds : ~Pausing(b)]_vars


\* the step is a step of the send_device_states call of request c: it is
\* entered, runs an iteration of its loop, or returns
SendStep(c) ==
    /\ snd[c].st \in {"ready", "run", "sleep"}
    /\ (snd'[c].st # snd[c].st \/ snd'[c].pos # snd[c].pos)

\* C24: send_device_states never modifies the store: no step of a call,
\* whether it ends in success or in failure, changes the dictionary, and a
\* call during which no other dictionary existed finds the store as it was
\* when the call began.
C24_SendLeavesStore ==
    /\ [][\A c \in Cmds : SendStep(c) => device_states' = device_states]_vars
    /\ [](\A c \in Cmds :
            (InLoop(snd[c]) /\ Cardinality(snd[c].seen) = 1) => snd[c].seen = {device_states})

\* one call has returned True and one False after a channel error, and the
\* store still holds what the requests merged
C24_Witness ==
    \E b, c \in Cmds :
        /\ snd[b].st = "done" /\ snd[b].ok
        /\ snd[c].st = "done" /\ ~snd[c].ok /\ faults > 0
        /\ Accepted(b) /\ Accepted(c)
        /\ device_states # InitialStates(variant)


\* C25: a command answered with an error leaves the store as it was before
\* the command: when the only request so far has been answered with an
\* error, the store is the one __init__ created.
C25_ErrorLeavesStore ==
    \A c \in Cmds :
        (cmd[c].result = "error" /\ \A b \in Cmds \ {c} : cmd[b].st = "idle")
        => device_states = InitialStates(variant)


\* no handler is running and no call is scheduled or running
Quiescent ==
    \A c \in Cmds : cmd[c].st \in {"idle", "done"} /\ snd[c].st \in {"none", "done"}
\* every request so far was accepted and its call returned True
AllWentWell ==
    /\ \E c \in Cmds : cmd[c].st = "done"
    /\ \A c \in Cmds : cmd[c].st = "done" => (Accepted(c) /\ snd[c].st = "done" /\ snd[c].ok)

\* C26: in a run where every command was accepted and every call returned
\* True, once nothing is in progress or pending, the most recent frame on
\* the port for every registry device is the frame of its current entry.
C26_LastFrameIsStore ==
    (Quiescent /\ AllWentWell) =>
        \A dev \in KeySet(InitialStates(variant)) :
            /\ dev \in KeySet(device_states)
            /\ dev \in DOMAIN wire
            /\ wire[dev] = Frame(variant, dev, device_states.vals[dev]).cells

=============================================================================
